---- MODULE Spec2Model ----
(***************************************************************************)
(* The paper-tear interaction of LetterSection.tsx and the page that hosts *)
(* it (Index), as a state machine: one action per event handler.           *)
(*                                                                         *)
(* Numbers.  A normalized coordinate (TearPoint.x, TearPoint.y, 0..1) is   *)
(* an integer count of 1/One.  Client coordinates are CSS pixels.  The     *)
(* progress ratio p = min(totalDist / requiredDist, 1) is kept as the      *)
(* integer (p * requiredDist)^2 = min(totalDist^2, requiredDist^2), so     *)
(* every threshold test of the code is an exact integer comparison.  A     *)
(* value of the noise source, (s - 1) / 2147483646, is kept as its         *)
(* numerator s - 1.  A nullable value is <<>> (null) or <<v>>.             *)
(*                                                                         *)
(* React.  Every handler runs to completion and the component re-renders   *)
(* before the next event is delivered, so a handler reads the state the    *)
(* previous handler left (the dependency lists of the useCallback hooks    *)
(* name every state value the handlers read).                              *)
(*                                                                         *)
(* The follow-up form (FlowerSection) is a second machine: onSubmit is an  *)
(* async function, one action per piece between two awaits.               *)
(***************************************************************************)
EXTENDS Integers, Sequences, FiniteSets, TLC

VARIABLES
    isRevealed,       \* useState(false)
    isDragging,       \* useState(false)
    tearProgress,     \* useState(0), as (p * requiredDist)^2
    tearPath,         \* useState<TearPoint[]>([])
    completedTear,    \* useState<TearPoint[] | null>(null)
    dragStartRef,     \* useRef<{x, y} | null>(null), client pixels
    lastPointRef,     \* useRef<TearPoint | null>(null)
    isMobileRef,      \* useRef(false), set once by the mount effect
    scrollUnlocked,   \* Index: useState(false)
    timers,           \* Index: pending setTimeout callbacks
    onRevealedCalls,  \* history: how often the onRevealed prop was invoked
    ev,               \* history: the last event delivered to the cover
    dragged,          \* history: a pointer-move recorded a path point since the last accepted pointer-down
    rngSeed,          \* noise source harness: the seed under test
    rngCells,         \* noise source harness: the closure cells `s`, one per seededRandom call
    rngGens,          \* noise source harness: each generator's cell
    rngOuts,          \* noise source harness: the values each generator returned
    call,             \* pure-function harness: the last call, its arguments and result
    submitted,        \* FlowerSection: useState(false)
    isSubmitting,     \* FlowerSection: useState(false)
    formValues,       \* FlowerSection: the values of the five form fields
    submitPc,         \* FlowerSection: where the pending onSubmit waits ("idle", "fetch", "json")
    requests,         \* history: the bodies handed to fetch
    toasts,           \* history: the titles handed to toast.error
    outcome           \* history: how the last onSubmit ended

tearVars == <<isRevealed, isDragging, tearProgress, tearPath, completedTear,
              dragStartRef, lastPointRef, isMobileRef>>
pageVars == <<scrollUnlocked, timers>>
histVars == <<onRevealedCalls, ev, dragged>>
rngVars == <<rngSeed, rngCells, rngGens, rngOuts>>
formVars == <<submitted, isSubmitting, formValues, submitPc, requests, toasts,
              outcome>>
vars == <<tearVars, pageVars, histVars, rngVars, call, formVars>>

---------------------------------------------------------------------------
(* Bounds of the model *)

MaxPath == 3
MaxReveals == 2
MaxGens == 2
MaxSteps == 3
MaxFibers == 3
MaxChain == 4
MaxSegments == 4
MaxSubmits == 2

---------------------------------------------------------------------------
(* Values *)

One == 9600

\* The pure-function harness before any call
NoCall == [fn |-> "none"]

Null == <<>>
Some(v) == <<v>>
Val(o) == o[1]

Pt(px, py) == [x |-> px, y |-> py]

\* The fields of formSchema, and the texts typed into them
FieldNames == {"address1", "address2", "city", "state", "postalCode"}
TextValues == {"", "a"}

\* The cover's bounding rectangle, in CSS pixels (its diagonal is 400).
CoverRect == [left |-> 0, top |-> 0, width |-> 240, height |-> 320]

\* Client positions the pointer events carry.  <<-205, 160>> lies outside the
\* cover: a captured pointer keeps reporting there.
ClientPoints ==
    { <<2, 160>>, <<-205, 160>>, <<120, 11>>, <<120, 15>>, <<120, 185>>,
      <<120, 270>>, <<120, 304>>, <<120, 315>>, <<230, 160>> }

InsideCover(c) ==
    /\ c[1] >= CoverRect.left /\ c[1] <= CoverRect.left + CoverRect.width
    /\ c[2] >= CoverRect.top /\ c[2] <= CoverRect.top + CoverRect.height

---------------------------------------------------------------------------
(* seededRandom *)

Modulus == 2147483647
Multiplier == 16807

\* (a * 16807) mod 2147483647 for 0 <= a < 2147483647.  The code computes the
\* product exactly (it is below 2^53); here it is split as
\* 16807 * (a mod q) - r * (a div q) with q = m div 16807, r = m mod 16807, which
\* is the same residue and stays within TLC's 32-bit integers.
MulMod(a) ==
    LET q == Modulus \div Multiplier
        r == Modulus % Multiplier
        t == Multiplier * (a % q) - r * (a \div q)
    IN  IF t < 0 THEN t + Modulus ELSE t

\* s = (s * 16807 + 0) % 2147483647, with the sign of the dividend as % has it
RngNext(s) ==
    IF s >= 0 THEN MulMod(s % Modulus)
    ELSE 0 - MulMod((0 - s) % Modulus)

\* Variant: the value is s / 2147483646 (the subtraction is missing).
RngOutNoDecrement(s) == s

\* return (s - 1) / 2147483646: the numerator
RngOut(s) == s - 1

\* One call of the closure on a cell holding s: the new cell and the value.
RngCall(s) == [s |-> RngNext(s), out |-> RngOut(RngNext(s))]

\* Variant: `s` is hoisted out of seededRandom, one cell that every generator
\* shares.
seededRandomShared(cells, seed) ==
    IF cells = <<>> THEN [cells |-> <<seed>>, gen |-> 1]
    ELSE [cells |-> cells, gen |-> 1]

\* seededRandom(seed): a new closure over its own `let s = seed`.
seededRandom(cells, seed) ==
    [cells |-> Append(cells, seed), gen |-> Len(cells) + 1]

---------------------------------------------------------------------------
(* Geometry *)

\* Math.max(0, Math.min(1, v))
Clamp01(v) == IF v < 0 THEN 0 ELSE IF v > One THEN One ELSE v

\* Variant: the position relative to the cover is not clamped.
getNormalizedPosUnclamped(clientX, clientY) ==
    Pt(((clientX - CoverRect.left) * One) \div CoverRect.width,
       ((clientY - CoverRect.top) * One) \div CoverRect.height)

\* getNormalizedPos: the client position relative to the cover, clamped.
getNormalizedPos(clientX, clientY) ==
    Pt(Clamp01(((clientX - CoverRect.left) * One) \div CoverRect.width),
       Clamp01(((clientY - CoverRect.top) * One) \div CoverRect.height))

\* dx * dx + dy * dy between two normalized points
DistSq(a, b) == (a.x - b.x) * (a.x - b.x) + (a.y - b.y) * (a.y - b.y)

\* Math.sqrt(dx * dx + dy * dy) > 0.012, on the squares: 0.012 = 3/250, and for
\* an integer d2, d2 > q is d2 > floor(q).
MovedEnough(a, b) == DistSq(a, b) > ((3 * One) * (3 * One)) \div (250 * 250)

\* (coverDiagonal * 0.85)^2, with 0.85^2 = 289/400
RequiredDistSq ==
    ((CoverRect.width * CoverRect.width + CoverRect.height * CoverRect.height) * 289) \div 400

\* Variant: totalDist / requiredDist without the cap at 1.
ProgressUncapped(totalDistSq) == totalDistSq

\* Math.min(totalDist / requiredDist, 1), as (p * requiredDist)^2
Progress(totalDistSq) ==
    IF totalDistSq >= RequiredDistSq THEN RequiredDistSq ELSE totalDistSq

\* p >= num/den for a stored progress p
ProgressGE(p, num, den) == p * den * den >= num * num * RequiredDistSq

\* pos.x <= m% || pos.x >= (100-m)% || pos.y <= m% || pos.y >= (100-m)%
NearEdge(pos, m) ==
    \/ 100 * pos.x <= m * One
    \/ 100 * pos.x >= (100 - m) * One
    \/ 100 * pos.y <= m * One
    \/ 100 * pos.y >= (100 - m) * One

\* n / d rounded to the nearest integer, d > 0
RoundDiv(n, d) == (2 * n + d) \div (2 * d)

\* extendToEdge.  A candidate is the crossing of the ray point + t * (dx, dy)
\* with one boundary line, kept as exact fractions over d: t = tn / d,
\* x = xn / d, y = yn / d.  Of two candidates on one ray the nearer one has the
\* smaller t (its squared distance is t^2 * (dx^2 + dy^2)).
EdgeCand(tn, xn, yn, d) ==
    IF d < 0 THEN [tn |-> 0 - tn, xn |-> 0 - xn, yn |-> 0 - yn, d |-> 0 - d]
    ELSE [tn |-> tn, xn |-> xn, yn |-> yn, d |-> d]

EdgeCandidates(point, dx, dy) ==
    LET horiz == IF dx # 0
                 THEN << EdgeCand(0 - point.x, 0, point.y * dx - dy * point.x, dx),
                         EdgeCand(One - point.x, One * dx,
                                  point.y * dx + dy * (One - point.x), dx) >>
                 ELSE << >>
        vert == IF dy # 0
                THEN << EdgeCand(0 - point.y, point.x * dy - dx * point.y, 0, dy),
                        EdgeCand(One - point.y,
                                 point.x * dy + dx * (One - point.y), One * dy, dy) >>
                ELSE << >>
        positive(c) == c.tn > 0
    IN  SelectSeq(horiz \o vert, positive)

\* c.x >= -0.01 && c.x <= 1.01 && c.y >= -0.01 && c.y <= 1.01
EdgeCandValid(c) ==
    /\ c.xn >= (0 - (One \div 100)) * c.d /\ c.xn <= (One + One \div 100) * c.d
    /\ c.yn >= (0 - (One \div 100)) * c.d /\ c.yn <= (One + One \div 100) * c.d

\* Variant: the chosen crossing is returned as it is, not clamped.
extendToEdgeUnclamped(point, neighbor, isStart) ==
    LET dx == point.x - neighbor.x
        dy == point.y - neighbor.y
        valid == SelectSeq(EdgeCandidates(point, dx, dy), EdgeCandValid)
        closer(a, b) == a.tn * b.d < b.tn * a.d
    IN  IF valid = << >> THEN Pt(Clamp01(point.x), 0)
        ELSE LET i == CHOOSE k \in 1..Len(valid) :
                          /\ \A j \in 1..Len(valid) : ~closer(valid[j], valid[k])
                          /\ \A j \in 1..(k - 1) : closer(valid[k], valid[j])
                 c == valid[i]
             IN  Pt(RoundDiv(c.xn, c.d), RoundDiv(c.yn, c.d))

\* Variant: the ray runs from the point towards its neighbour.
extendToEdgeTowards(point, neighbor, isStart) ==
    LET dx == neighbor.x - point.x
        dy == neighbor.y - point.y
        valid == SelectSeq(EdgeCandidates(point, dx, dy), EdgeCandValid)
        closer(a, b) == a.tn * b.d < b.tn * a.d
    IN  IF valid = << >> THEN Pt(Clamp01(point.x), 0)
        ELSE LET i == CHOOSE k \in 1..Len(valid) :
                          /\ \A j \in 1..Len(valid) : ~closer(valid[j], valid[k])
                          /\ \A j \in 1..(k - 1) : closer(valid[k], valid[j])
                 c == valid[i]
             IN  Pt(Clamp01(RoundDiv(c.xn, c.d)), Clamp01(RoundDiv(c.yn, c.d)))

\* Variant: `d > bestDist` from a bestDist of -Infinity, the farthest valid
\* crossing wins.
extendToEdgeFarthest(point, neighbor, isStart) ==
    LET dx == point.x - neighbor.x
        dy == point.y - neighbor.y
        valid == SelectSeq(EdgeCandidates(point, dx, dy), EdgeCandValid)
        closer(a, b) == a.tn * b.d < b.tn * a.d
    IN  IF valid = << >> THEN Pt(Clamp01(point.x), 0)
        ELSE LET i == CHOOSE k \in 1..Len(valid) :
                          /\ \A j \in 1..Len(valid) : ~closer(valid[k], valid[j])
                          /\ \A j \in 1..(k - 1) : closer(valid[j], valid[k])
                 c == valid[i]
             IN  Pt(Clamp01(RoundDiv(c.xn, c.d)), Clamp01(RoundDiv(c.yn, c.d)))

extendToEdge(point, neighbor, isStart) ==
    LET dx == point.x - neighbor.x
        dy == point.y - neighbor.y
        valid == SelectSeq(EdgeCandidates(point, dx, dy), EdgeCandValid)
        closer(a, b) == a.tn * b.d < b.tn * a.d
    IN  IF valid = << >> THEN Pt(Clamp01(point.x), 0)
        ELSE LET i == CHOOSE k \in 1..Len(valid) :
                          /\ \A j \in 1..Len(valid) : ~closer(valid[j], valid[k])
                          /\ \A j \in 1..(k - 1) : closer(valid[k], valid[j])
                 c == valid[i]
             IN  Pt(Clamp01(RoundDiv(c.xn, c.d)), Clamp01(RoundDiv(c.yn, c.d)))

---------------------------------------------------------------------------
(* The component's state as one value, so that a handler is a function from
   the state it reads to the state it leaves. *)

St ==
    [ isRevealed |-> isRevealed, isDragging |-> isDragging,
      tearProgress |-> tearProgress, tearPath |-> tearPath,
      completedTear |-> completedTear, dragStartRef |-> dragStartRef,
      lastPointRef |-> lastPointRef, isMobileRef |-> isMobileRef,
      timers |-> timers, onRevealedCalls |-> onRevealedCalls ]

\* Variant: the callback is never handed to setTimeout.
handleRevealedUnscheduled(st) == st

\* Index.handleRevealed: setTimeout(() => setScrollUnlocked(true), 5000)
handleRevealed(st) == [st EXCEPT !.timers = @ + 1]

\* onRevealed?.() : LetterSection is rendered with onRevealed={handleRevealed}
onRevealed(st) == handleRevealed([st EXCEPT !.onRevealedCalls = @ + 1])

\* Variant: dragStartRef.current is not assigned.
handleCoverPointerDownNoStart(st, clientX, clientY) ==
    IF st.isRevealed THEN st
    ELSE LET pos == getNormalizedPos(clientX, clientY)
         IN  [st EXCEPT !.lastPointRef = Some(pos),
                        !.isDragging = TRUE,
                        !.tearPath = << pos >>]

\* handleCoverPointerDown
handleCoverPointerDown(st, clientX, clientY) ==
    IF st.isRevealed THEN st
    ELSE LET pos == getNormalizedPos(clientX, clientY)
         IN  [st EXCEPT !.dragStartRef = Some(Pt(clientX, clientY)),
                        !.lastPointRef = Some(pos),
                        !.isDragging = TRUE,
                        !.tearPath = << pos >>]

\* Variant: the setTearPath updater returns currentPath, not finalPath.
finishTearKeepsPath(st, lastPos) ==
    LET finalPath == IF lastPos # Null THEN Append(st.tearPath, Val(lastPos))
                     ELSE st.tearPath
        n == Len(finalPath)
        completePath ==
            << extendToEdge(finalPath[1], finalPath[2], TRUE) >>
            \o finalPath
            \o << extendToEdge(finalPath[n], finalPath[n - 1], FALSE) >>
    IN  onRevealed(
            [st EXCEPT !.completedTear = IF n >= 2 THEN Some(completePath) ELSE @,
                       !.isRevealed = TRUE,
                       !.isDragging = FALSE,
                       !.dragStartRef = Null,
                       !.lastPointRef = Null])

\* finishTear(lastPos?): the setTearPath updater sees the path with every
\* update queued before it in the same handler.
finishTear(st, lastPos) ==
    LET finalPath == IF lastPos # Null THEN Append(st.tearPath, Val(lastPos))
                     ELSE st.tearPath
        n == Len(finalPath)
        completePath ==
            << extendToEdge(finalPath[1], finalPath[2], TRUE) >>
            \o finalPath
            \o << extendToEdge(finalPath[n], finalPath[n - 1], FALSE) >>
    IN  onRevealed(
            [st EXCEPT !.tearPath = finalPath,
                       !.completedTear = IF n >= 2 THEN Some(completePath) ELSE @,
                       !.isRevealed = TRUE,
                       !.isDragging = FALSE,
                       !.dragStartRef = Null,
                       !.lastPointRef = Null])

\* Variant: the drag-time edge test uses the release-time 4% band.
handleCoverPointerMoveUnified(st, clientX, clientY) ==
    IF ~st.isDragging \/ st.dragStartRef = Null \/ st.isRevealed THEN st
    ELSE IF st.lastPointRef = Null THEN st
    ELSE LET pos == getNormalizedPos(clientX, clientY)
             recorded == MovedEnough(pos, Val(st.lastPointRef))
             s1 == IF recorded
                   THEN [st EXCEPT !.lastPointRef = Some(pos),
                                   !.tearPath = Append(@, pos)]
                   ELSE st
             totalDx == clientX - Val(st.dragStartRef).x
             totalDy == clientY - Val(st.dragStartRef).y
             progress == Progress(totalDx * totalDx + totalDy * totalDy)
             s2 == [s1 EXCEPT !.tearProgress = progress]
         IN  IF ProgressGE(progress, 1, 1)
                \/ (ProgressGE(progress, 3, 4) /\ NearEdge(pos, 4))
             THEN finishTear(s2, Some(pos))
             ELSE s2

\* handleCoverPointerMove
handleCoverPointerMove(st, clientX, clientY) ==
    IF ~st.isDragging \/ st.dragStartRef = Null \/ st.isRevealed THEN st
    ELSE IF st.lastPointRef = Null THEN st
    ELSE LET pos == getNormalizedPos(clientX, clientY)
             recorded == MovedEnough(pos, Val(st.lastPointRef))
             s1 == IF recorded
                   THEN [st EXCEPT !.lastPointRef = Some(pos),
                                   !.tearPath = Append(@, pos)]
                   ELSE st
             totalDx == clientX - Val(st.dragStartRef).x
             totalDy == clientY - Val(st.dragStartRef).y
             progress == Progress(totalDx * totalDx + totalDy * totalDy)
             s2 == [s1 EXCEPT !.tearProgress = progress]
         IN  IF ProgressGE(progress, 1, 1)
                \/ (ProgressGE(progress, 3, 4) /\ NearEdge(pos, 3))
             THEN finishTear(s2, Some(pos))
             ELSE s2

\* Variant: no `if (isRevealed) return`.
handleCoverPointerUpUnguarded(st) ==
    LET nearEdge == IF st.lastPointRef # Null
                    THEN NearEdge(Val(st.lastPointRef), 4)
                    ELSE FALSE
        s1 == IF ProgressGE(st.tearProgress, 17, 20)
                 \/ (ProgressGE(st.tearProgress, 3, 5) /\ nearEdge)
              THEN finishTear(st, Null)
              ELSE [st EXCEPT !.tearPath = << >>, !.tearProgress = 0]
    IN  [s1 EXCEPT !.isDragging = FALSE,
                   !.dragStartRef = Null,
                   !.lastPointRef = Null]

\* Variant: tearProgress > 0.85 where the code has >=.
handleCoverPointerUpStrict(st) ==
    IF st.isRevealed THEN st
    ELSE LET nearEdge == IF st.lastPointRef # Null
                         THEN NearEdge(Val(st.lastPointRef), 4)
                         ELSE FALSE
             s1 == IF st.tearProgress * 20 * 20 > 17 * 17 * RequiredDistSq
                      \/ (ProgressGE(st.tearProgress, 3, 5) /\ nearEdge)
                   THEN finishTear(st, Null)
                   ELSE [st EXCEPT !.tearPath = << >>, !.tearProgress = 0]
         IN  [s1 EXCEPT !.isDragging = FALSE,
                        !.dragStartRef = Null,
                        !.lastPointRef = Null]

\* Variant: the snap-back clears the path and leaves tearProgress as it was.
handleCoverPointerUpKeepsProgress(st) ==
    IF st.isRevealed THEN st
    ELSE LET nearEdge == IF st.lastPointRef # Null
                         THEN NearEdge(Val(st.lastPointRef), 4)
                         ELSE FALSE
             s1 == IF ProgressGE(st.tearProgress, 17, 20)
                      \/ (ProgressGE(st.tearProgress, 3, 5) /\ nearEdge)
                   THEN finishTear(st, Null)
                   ELSE [st EXCEPT !.tearPath = << >>]
         IN  [s1 EXCEPT !.isDragging = FALSE,
                        !.dragStartRef = Null,
                        !.lastPointRef = Null]

\* Variant: the snap-back resets tearProgress and leaves the path as it was.
handleCoverPointerUpKeepsPath(st) ==
    IF st.isRevealed THEN st
    ELSE LET nearEdge == IF st.lastPointRef # Null
                         THEN NearEdge(Val(st.lastPointRef), 4)
                         ELSE FALSE
             s1 == IF ProgressGE(st.tearProgress, 17, 20)
                      \/ (ProgressGE(st.tearProgress, 3, 5) /\ nearEdge)
                   THEN finishTear(st, Null)
                   ELSE [st EXCEPT !.tearProgress = 0]
         IN  [s1 EXCEPT !.isDragging = FALSE,
                        !.dragStartRef = Null,
                        !.lastPointRef = Null]

\* handleCoverPointerUp
handleCoverPointerUp(st) ==
    IF st.isRevealed THEN st
    ELSE LET nearEdge == IF st.lastPointRef # Null
                         THEN NearEdge(Val(st.lastPointRef), 4)
                         ELSE FALSE
             s1 == IF ProgressGE(st.tearProgress, 17, 20)
                      \/ (ProgressGE(st.tearProgress, 3, 5) /\ nearEdge)
                   THEN finishTear(st, Null)
                   ELSE [st EXCEPT !.tearPath = << >>, !.tearProgress = 0]
         IN  [s1 EXCEPT !.isDragging = FALSE,
                        !.dragStartRef = Null,
                        !.lastPointRef = Null]

\* floor(rng() * k) for a value rng() = out / 2147483646 and an integer k with
\* 0 <= k < 46341.  With c = 2147483646 = A * k + B and out = A * qa + ra,
\* out * k = c * qa + (ra * k - B * qa), and the bracket lies between -c and c:
\* every product stays within 32 bits.
ScaleOut(out, k) ==
    IF k = 0 THEN 0
    ELSE LET c == Modulus - 1
             A == c \div k
             B == c % k
             qa == out \div A
             ra == out % A
         IN  IF ra * k - B * qa < 0 THEN qa - 1 ELSE qa

\* (rng() - 0.5) * 0.03, in units of 1/One, rounded down
Jitter(out) == ScaleOut(out, (3 * One) \div 100) - (3 * One) \div 200

\* n successive calls of one closure whose cell holds s: the cell after each
\* call, the first half of the calls and then the rest from where they end.
RECURSIVE RngRun(_, _)
RngRun(s, n) ==
    IF n <= 0 THEN << >>
    ELSE IF n = 1 THEN << RngCall(s).s >>
    ELSE LET half == RngRun(s, n \div 2)
         IN  half \o RngRun(half[Len(half)], n - n \div 2)

\* n successive calls of one closure created by seededRandom(seed): the cell
\* after each call (the value returned by call k is RngOut of cell k).
RngStates(seed, n) == RngRun(seed, n)

\* Variant: the loop runs for i < 20.
fakeTearShort ==
    LET cells == RngStates(42, 2 * 20)
    IN  [k \in 1..20 |->
            Pt(One \div 10 + ((k - 1) * 8 * One) \div 200
                   + Jitter(RngOut(cells[2 * k - 1])),
               (3 * One) \div 10 + ((k - 1) * 4 * One) \div 200
                   + Jitter(RngOut(cells[2 * k])))]

\* The loop of handleTapOpen: for (let i = 0; i <= 20; i++) fakeTear.push(...),
\* one closure from seededRandom(42), x drawn before y.
fakeTear ==
    LET cells == RngStates(42, 2 * 21)
    IN  [k \in 1..21 |->
            Pt(One \div 10 + ((k - 1) * 8 * One) \div 200
                   + Jitter(RngOut(cells[2 * k - 1])),
               (3 * One) \div 10 + ((k - 1) * 4 * One) \div 200
                   + Jitter(RngOut(cells[2 * k])))]

\* Variant: no `isRevealed` test in the guard.
handleTapOpenUnguarded(st) ==
    IF st.isDragging THEN st
    ELSE IF ~st.isMobileRef THEN st
    ELSE onRevealed(
            [st EXCEPT !.tearPath = fakeTear,
                       !.tearProgress = RequiredDistSq,
                       !.completedTear =
                           Some(<< Pt(0, (28 * One) \div 100) >> \o fakeTear
                                \o << Pt(One, (72 * One) \div 100) >>),
                       !.isRevealed = TRUE])

\* Variant: no test of isDragging.
handleTapOpenWhileDragging(st) ==
    IF st.isRevealed THEN st
    ELSE IF ~st.isMobileRef THEN st
    ELSE onRevealed(
            [st EXCEPT !.tearPath = fakeTear,
                       !.tearProgress = RequiredDistSq,
                       !.completedTear =
                           Some(<< Pt(0, (28 * One) \div 100) >> \o fakeTear
                                \o << Pt(One, (72 * One) \div 100) >>),
                       !.isRevealed = TRUE])

\* handleTapOpen
handleTapOpen(st) ==
    IF st.isRevealed \/ st.isDragging THEN st
    ELSE IF ~st.isMobileRef THEN st
    ELSE onRevealed(
            [st EXCEPT !.tearPath = fakeTear,
                       !.tearProgress = RequiredDistSq,
                       !.completedTear =
                           Some(<< Pt(0, (28 * One) \div 100) >> \o fakeTear
                                \o << Pt(One, (72 * One) \div 100) >>),
                       !.isRevealed = TRUE])

---------------------------------------------------------------------------
(* Actions *)

Event(kind, c) == [kind |-> kind, x |-> c[1], y |-> c[2]]

\* The state a handler leaves becomes the state the next render shows.
Commit(n) ==
    /\ isRevealed' = n.isRevealed
    /\ isDragging' = n.isDragging
    /\ tearProgress' = n.tearProgress
    /\ tearPath' = n.tearPath
    /\ completedTear' = n.completedTear
    /\ dragStartRef' = n.dragStartRef
    /\ lastPointRef' = n.lastPointRef
    /\ isMobileRef' = n.isMobileRef
    /\ timers' = n.timers
    /\ onRevealedCalls' = n.onRevealedCalls

\* FlowerSection after its first render: nothing submitted, nothing pending,
\* the defaultValues of useForm
InitFormVars ==
    /\ submitted = FALSE
    /\ isSubmitting = FALSE
    /\ formValues = [f \in FieldNames |-> ""]
    /\ submitPc = "idle"
    /\ requests = << >>
    /\ toasts = << >>
    /\ outcome = "none"

Init ==
    /\ isRevealed = FALSE
    /\ isDragging = FALSE
    /\ tearProgress = 0
    /\ tearPath = << >>
    /\ completedTear = Null
    /\ dragStartRef = Null
    /\ lastPointRef = Null
    /\ isMobileRef \in BOOLEAN
    /\ scrollUnlocked = FALSE
    /\ timers = 0
    /\ onRevealedCalls = 0
    /\ ev = Event("none", << 0, 0 >>)
    /\ dragged = FALSE
    /\ rngSeed = 42
    /\ rngCells = << >>
    /\ rngGens = << >>
    /\ rngOuts = << >>
    /\ call = NoCall
    /\ InitFormVars

\* onPointerDown: only a pointer over the cover reaches it
PointerDown ==
    \E c \in ClientPoints :
        /\ InsideCover(c)
        /\ onRevealedCalls < MaxReveals
        /\ Commit(handleCoverPointerDown(St, c[1], c[2]))
        /\ ev' = Event("down", c)
        /\ dragged' = IF isRevealed THEN dragged ELSE FALSE
        /\ UNCHANGED << scrollUnlocked, rngVars, call, formVars >>

\* onPointerMove: a captured pointer reports positions outside the cover too
PointerMove ==
    \E c \in ClientPoints :
        LET n == handleCoverPointerMove(St, c[1], c[2])
        IN  /\ onRevealedCalls < MaxReveals
            /\ Len(tearPath) < MaxPath \/ Len(n.tearPath) = Len(tearPath)
            /\ Commit(n)
            /\ ev' = Event("move", c)
            /\ dragged' = (dragged \/ Len(n.tearPath) > Len(tearPath))
            /\ UNCHANGED << scrollUnlocked, rngVars, call, formVars >>

\* onPointerUp
PointerUp ==
    /\ onRevealedCalls < MaxReveals
    /\ Commit(handleCoverPointerUp(St))
    /\ ev' = Event("up", << 0, 0 >>)
    /\ UNCHANGED << scrollUnlocked, dragged, rngVars, call, formVars >>

\* onClick
Click ==
    /\ onRevealedCalls < MaxReveals
    /\ Commit(handleTapOpen(St))
    /\ ev' = Event("click", << 0, 0 >>)
    /\ UNCHANGED << scrollUnlocked, dragged, rngVars, call, formVars >>

\* Variant: the timer is started when the page mounts, not by handleRevealed.
TimerFireFromMount ==
    /\ scrollUnlocked' = TRUE
    /\ timers' = IF timers > 0 THEN timers - 1 ELSE timers
    /\ UNCHANGED << tearVars, histVars, rngVars, call, formVars >>

\* The callback of the setTimeout that handleRevealed scheduled
TimerFire ==
    /\ timers > 0
    /\ timers' = timers - 1
    /\ scrollUnlocked' = TRUE
    /\ UNCHANGED << tearVars, histVars, rngVars, call, formVars >>

Next == PointerDown \/ PointerMove \/ PointerUp \/ Click \/ TimerFire

Spec == Init /\ [][Next]_vars

\* A timer that is pending is not cleared (no clearTimeout anywhere), so the
\* event loop runs its callback once the 5 seconds are over.
FairSpec == Spec /\ WF_vars(TimerFire)

---------------------------------------------------------------------------
(* The noise source on its own: generators made by seededRandom(rngSeed) and
   called in any interleaving. *)

Seeds ==
    { 0 - 42, 0, 1, 42, 999, 12345, 739806647, 1407677000, 2147483646, 2147483647 }

InitRng ==
    /\ isRevealed = FALSE
    /\ isDragging = FALSE
    /\ tearProgress = 0
    /\ tearPath = << >>
    /\ completedTear = Null
    /\ dragStartRef = Null
    /\ lastPointRef = Null
    /\ isMobileRef = FALSE
    /\ scrollUnlocked = FALSE
    /\ timers = 0
    /\ onRevealedCalls = 0
    /\ ev = Event("none", << 0, 0 >>)
    /\ dragged = FALSE
    /\ rngSeed \in Seeds
    /\ rngCells = << >>
    /\ rngGens = << >>
    /\ rngOuts = << >>
    /\ call = NoCall
    /\ InitFormVars

\* const rng = seededRandom(seed)
NewGenerator ==
    /\ Len(rngGens) < MaxGens
    /\ LET r == seededRandom(rngCells, rngSeed)
       IN  /\ rngCells' = r.cells
           /\ rngGens' = Append(rngGens, r.gen)
           /\ rngOuts' = Append(rngOuts, << >>)
    /\ UNCHANGED << rngSeed, tearVars, pageVars, histVars, call, formVars >>

\* rng()
CallGenerator ==
    \E g \in 1..Len(rngGens) :
        /\ Len(rngOuts[g]) < MaxSteps
        /\ LET c == RngCall(rngCells[rngGens[g]])
           IN  /\ rngCells' = [rngCells EXCEPT ![rngGens[g]] = c.s]
               /\ rngOuts' = [rngOuts EXCEPT ![g] = Append(@, c.out)]
        /\ UNCHANGED << rngSeed, rngGens, tearVars, pageVars, histVars, call, formVars >>

NextRng == NewGenerator \/ CallGenerator

SpecRng == InitRng /\ [][NextRng]_vars

---------------------------------------------------------------------------
(* Derived geometry.  A jaggedness and the offsets drawn from it are integers
   in units of 1/(Fine * One); Math.sqrt is its integer part. *)

Fine == 10

RECURSIVE SqrtBetween(_, _, _)
SqrtBetween(n, lo, hi) ==
    IF hi - lo <= 1 THEN lo
    ELSE LET mid == (lo + hi) \div 2
         IN  IF mid * mid <= n THEN SqrtBetween(n, mid, hi)
             ELSE SqrtBetween(n, lo, mid)

\* Math.sqrt(n), rounded down, for 0 <= n < 2^31
Sqrt(n) == SqrtBetween(n, 0, 46341)

\* 0.012 + tearProgress * 0.008, for a stored progress
Jaggedness(progress) ==
    (12 * One * Fine) \div 1000
    + (8 * One * Fine * Sqrt(progress)) \div (1000 * Sqrt(RequiredDistSq))

\* (rng() - 0.5) * 2 * jaggedness
JagOffset(out, jaggedness) == ScaleOut(out, 2 * jaggedness) - jaggedness

\* (rng() - 0.5) * jaggedness * 0.3
JagMicro(out, jaggedness) ==
    ScaleOut(out, (3 * jaggedness) \div 10) - (3 * jaggedness) \div 20

\* Variant: the loop runs for i <= segments.
generateJaggedEdgeInclusive(p1, p2, jaggedness, segments, seed) ==
    LET dx == p2.x - p1.x
        dy == p2.y - p1.y
        len == Sqrt(dx * dx + dy * dy)
        div == IF len = 0 THEN 1 ELSE len
        cells == RngStates(seed, 3 * segments)
        offset(i) == JagOffset(RngOut(cells[3 * i - 2]), jaggedness)
        microX(i) == JagMicro(RngOut(cells[3 * i - 1]), jaggedness)
        microY(i) == JagMicro(RngOut(cells[3 * i]), jaggedness)
        inner(i) ==
            Pt(RoundDiv(Fine * p1.x + RoundDiv(Fine * dx * i, segments)
                        + RoundDiv((0 - dy) * offset(i), div) + microX(i), Fine),
               RoundDiv(Fine * p1.y + RoundDiv(Fine * dy * i, segments)
                        + RoundDiv(dx * offset(i), div) + microY(i), Fine))
    IN  << p1 >> \o [i \in 1..segments |-> inner(i)] \o << p2 >>

\* generateJaggedEdge(p1, p2, jaggedness, segments, seed): p1, then for
\* i = 1 .. segments - 1 the point at t = i / segments displaced along the
\* normal by `offset` and by (microX, microY), then p2.  The closure is called
\* three times per interior point: offset, microX, microY.
generateJaggedEdge(p1, p2, jaggedness, segments, seed) ==
    LET dx == p2.x - p1.x
        dy == p2.y - p1.y
        len == Sqrt(dx * dx + dy * dy)
        div == IF len = 0 THEN 1 ELSE len
        cells == RngStates(seed, 3 * (segments - 1))
        offset(i) == JagOffset(RngOut(cells[3 * i - 2]), jaggedness)
        microX(i) == JagMicro(RngOut(cells[3 * i - 1]), jaggedness)
        microY(i) == JagMicro(RngOut(cells[3 * i]), jaggedness)
        inner(i) ==
            Pt(RoundDiv(Fine * p1.x + RoundDiv(Fine * dx * i, segments)
                        + RoundDiv((0 - dy) * offset(i), div) + microX(i), Fine),
               RoundDiv(Fine * p1.y + RoundDiv(Fine * dy * i, segments)
                        + RoundDiv(dx * offset(i), div) + microY(i), Fine))
    IN  << p1 >> \o [i \in 1..(segments - 1) |-> inner(i)] \o << p2 >>

\* Variant: tearPath is preferred to completedTear.
TearSourcePathFirst(path, completed) ==
    IF Len(path) >= 2 THEN path
    ELSE IF completed # Null THEN Val(completed)
    ELSE << >>

\* completedTear || (tearPath.length >= 2 ? tearPath : null), null as << >>
TearSource(path, completed) ==
    IF completed # Null THEN Val(completed)
    ELSE IF Len(path) >= 2 THEN path
    ELSE << >>

\* Variant: every segment's points are pushed whole.
RECURSIVE JaggedLoopAll(_, _, _, _)
JaggedLoopAll(source, jaggedness, i, allJagged) ==
    IF Len(allJagged) < 0 \/ i > Len(source) - 1 THEN allJagged
    ELSE LET jagged == generateJaggedEdge(source[i], source[i + 1], jaggedness,
                                          4, (i - 1) * 137 + 7)
         IN  JaggedLoopAll(source, jaggedness, i + 1, allJagged \o jagged)

\* The loop of jaggedTearPoints from segment i (counted from 1) on:
\* if (i === 0) allJagged.push(...jagged); else allJagged.push(...jagged.slice(1))
RECURSIVE JaggedLoop(_, _, _, _)
JaggedLoop(source, jaggedness, i, allJagged) ==
    IF Len(allJagged) < 0 \/ i > Len(source) - 1 THEN allJagged
    ELSE LET jagged == generateJaggedEdge(source[i], source[i + 1], jaggedness,
                                          4, (i - 1) * 137 + 7)
         IN  JaggedLoop(source, jaggedness, i + 1,
                        allJagged \o (IF i = 1 THEN jagged ELSE Tail(jagged)))

\* jaggedTearPoints, a function of [tearPath, completedTear, tearProgress]
jaggedTearPoints(path, completed, progress) ==
    LET source == TearSource(path, completed)
    IN  IF Len(source) < 2 THEN << >>
        ELSE JaggedLoop(source, Jaggedness(progress), 1, << >>)

\* (v * 100).toFixed(1): a percentage with one decimal, as a count of 0.1%
Percent(v) ==
    IF v < 0 THEN 0 - RoundDiv((0 - v) * 1000, One) ELSE RoundDiv(v * 1000, One)

\* `${(p.x * 100).toFixed(1)}% ${(p.y * 100).toFixed(1)}%`
ClipVertex(p) == Pt(Percent(p.x), Percent(p.y))

Reverse(seq) == [i \in 1..Len(seq) |-> seq[Len(seq) + 1 - i]]

\* Variant: the polygon of the string `top`, with the connectors at the
\* bottom corners.
topClipFullHeight(jagged) ==
    LET tear == [i \in 1..Len(jagged) |-> ClipVertex(jagged[i])]
    IN  IF Len(jagged) < 2 THEN << >>
        ELSE << Pt(0, 0), Pt(Percent(One), 0), Pt(Percent(One), Percent(One)) >>
             \o Reverse(tear)
             \o << Pt(0, Percent(One)) >>

\* topClip: polygon(0% 0%, 100% 0%, 100% last.y, the tear line reversed,
\* 0% first.y) as its list of vertices; the empty string is << >>.
topClip(jagged) ==
    LET tear == [i \in 1..Len(jagged) |-> ClipVertex(jagged[i])]
    IN  IF Len(jagged) < 2 THEN << >>
        ELSE << Pt(0, 0), Pt(Percent(One), 0),
                Pt(Percent(One), Percent(jagged[Len(jagged)].y)) >>
             \o Reverse(tear)
             \o << Pt(0, Percent(jagged[1].y)) >>

\* bottomClip: polygon(0% first.y, the tear line, 100% last.y, 100% 100%,
\* 0% 100%)
bottomClip(jagged) ==
    LET tear == [i \in 1..Len(jagged) |-> ClipVertex(jagged[i])]
    IN  IF Len(jagged) < 2 THEN << >>
        ELSE << Pt(0, Percent(jagged[1].y)) >>
             \o tear
             \o << Pt(Percent(One), Percent(jagged[Len(jagged)].y)),
                   Pt(Percent(One), Percent(One)), Pt(0, Percent(One)) >>

\* rng() * k rounded towards zero, for an integer k of either sign
ScaleSigned(out, k) == IF k < 0 THEN 0 - ScaleOut(out, 0 - k) ELSE ScaleOut(out, k)

\* Variant: fiberLen = 2 + rng() * 8 and opacity = 0.15 + rng() * 0.3.
FiberLong(tearPoints, w, h, c, idx) ==
    LET q == tearPoints[idx + 1]
        pNext == tearPoints[idx + 2]
    IN  [ idx |-> idx,
          x1 |-> (q.x + ScaleSigned(c[2], pNext.x - q.x)) * w,
          y1 |-> (q.y + ScaleSigned(c[2], pNext.y - q.y)) * h,
          angle |-> ScaleOut(c[3], 3600),
          fiberLen |-> 2000 + ScaleOut(c[4], 8000),
          opacity |-> 1500 + ScaleOut(c[5], 3000) ]

\* One fiber of generateFibers on a path of n = Len(tearPoints) points, from the
\* five values c[1..5] the closure returns for it: idx, t, angle, fiberLen,
\* opacity.  x1 and y1 are in units of 1/One; the far end (x2, y2) is kept as
\* the angle (tenths of a degree) and the length (thousandths); the opacity is
\* in ten-thousandths.
Fiber(tearPoints, w, h, c, idx) ==
    LET q == tearPoints[idx + 1]
        pNext == tearPoints[idx + 2]
    IN  [ idx |-> idx,
          x1 |-> (q.x + ScaleSigned(c[2], pNext.x - q.x)) * w,
          y1 |-> (q.y + ScaleSigned(c[2], pNext.y - q.y)) * h,
          angle |-> ScaleOut(c[3], 3600),
          fiberLen |-> 2000 + ScaleOut(c[4], 6000),
          opacity |-> 1500 + ScaleOut(c[5], 2500) ]

\* Variant: idx = Math.floor(rng() * tearPoints.length)
generateFibersFullLength(tearPoints, w, h, count, seed) ==
    IF Len(tearPoints) < 2 THEN [threw |-> FALSE, fibers |-> << >>]
    ELSE LET n == IF count > 0 THEN count ELSE 0
             cells == RngStates(seed, 5 * n)
             c(i) == [k \in 1..5 |-> RngOut(cells[5 * (i - 1) + k])]
             idx(i) == ScaleOut(c(i)[1], Len(tearPoints))
             defined(i) == idx(i) >= 0 /\ idx(i) + 1 <= Len(tearPoints) - 1
         IN  IF \E i \in 1..n : ~defined(i)
             THEN [threw |-> TRUE, fibers |-> << >>]
             ELSE [threw |-> FALSE,
                   fibers |-> [i \in 1..n |-> Fiber(tearPoints, w, h, c(i), idx(i))]]

\* generateFibers(tearPoints, w, h, count, seed).  tearPoints[idx] and
\* tearPoints[idx + 1] are undefined outside the array, and reading `.x` of
\* undefined throws a TypeError: `threw`.
generateFibers(tearPoints, w, h, count, seed) ==
    IF Len(tearPoints) < 2 THEN [threw |-> FALSE, fibers |-> << >>]
    ELSE LET n == IF count > 0 THEN count ELSE 0
             cells == RngStates(seed, 5 * n)
             c(i) == [k \in 1..5 |-> RngOut(cells[5 * (i - 1) + k])]
             idx(i) == ScaleOut(c(i)[1], Len(tearPoints) - 1)
             defined(i) == idx(i) >= 0 /\ idx(i) + 1 <= Len(tearPoints) - 1
         IN  IF \E i \in 1..n : ~defined(i)
             THEN [threw |-> TRUE, fibers |-> << >>]
             ELSE [threw |-> FALSE,
                   fibers |-> [i \in 1..n |-> Fiber(tearPoints, w, h, c(i), idx(i))]]

\* Math.floor(tearProgress * 40), tearProgress being the square root of
\* progress / RequiredDistSq
FiberCount(progress) == Sqrt((1600 * progress) \div RequiredDistSq)

\* tearFibers, a function of [jaggedTearPoints, tearProgress]
tearFibers(jagged, progress) ==
    IF Len(jagged) < 2 THEN [threw |-> FALSE, fibers |-> << >>]
    ELSE generateFibers(jagged, 100, 100, FiberCount(progress), 999)

---------------------------------------------------------------------------
(* The pure functions on their own: a behaviour makes one call on arguments
   drawn from a bounded set; `call` records the arguments and the result. *)

\* Coordinates of the end points tried: both boundaries, one step off the
\* boundary, and interior values.
EdgeCoords == { 0, One \div 960, One \div 4, One \div 2, (3 * One) \div 5, One }

EdgePoints == { Pt(px, py) : px \in EdgeCoords, py \in EdgeCoords }

InitPure == Init /\ isMobileRef = FALSE

\* extendToEdge(point, neighbor, isStart)
CallExtendToEdge ==
    \E point \in EdgePoints, neighbor \in EdgePoints, isStart \in BOOLEAN :
        /\ call = NoCall
        /\ call' = [ fn |-> "extendToEdge", point |-> point,
                     neighbor |-> neighbor, isStart |-> isStart,
                     result |-> extendToEdge(point, neighbor, isStart) ]
        /\ UNCHANGED << tearVars, pageVars, histVars, rngVars, formVars >>

\* Tear lines handed to generateFibers: none, one point, two, three, five
FiberPaths ==
    LET a == Pt(0, (3 * One) \div 10)
        b == Pt(One \div 4, One \div 2)
        c == Pt(One \div 2, (2 * One) \div 5)
        d == Pt((3 * One) \div 4, (3 * One) \div 5)
        e == Pt(One, (7 * One) \div 10)
    IN  { << >>, << a >>, << a, e >>, << a, c, e >>, << a, b, c, d, e >> }

\* generateFibers(tearPoints, 100, 100, count, seed)
CallGenerateFibers ==
    \E tearPoints \in FiberPaths, count \in (0 - 1)..MaxFibers, seed \in Seeds :
        /\ call = NoCall
        /\ call' = [ fn |-> "generateFibers", tearPoints |-> tearPoints,
                     count |-> count, seed |-> seed,
                     result |-> generateFibers(tearPoints, 100, 100, count, seed) ]
        /\ UNCHANGED << tearVars, pageVars, histVars, rngVars, formVars >>

\* Points of the source paths handed to jaggedTearPoints
ChainPoints ==
    { Pt(0, One \div 2), Pt(One \div 4, (2 * One) \div 5),
      Pt((3 * One) \div 4, (3 * One) \div 5), Pt(One, One \div 2) }

\* Source paths of 0 to MaxChain points, and the 23 points of the tap's tear
ChainPaths ==
    UNION { [1..n -> ChainPoints] : n \in 0..MaxChain }
    \cup { << Pt(0, (28 * One) \div 100) >> \o fakeTear
           \o << Pt(One, (72 * One) \div 100) >> }

\* The render's memos, jaggedTearPoints, tearFibers and the two clips, for a
\* tear path in progress (completedTear null) or a completed tear (tearPath
\* then holds what finishTear left: the points between the two extensions),
\* at progress 0, 0.5 or 1
CallJaggedTearPoints ==
    \E source \in ChainPaths, completed \in BOOLEAN, half \in 0..2 :
        LET progress == (half * half * RequiredDistSq) \div 4
            path == IF completed THEN SubSeq(source, 2, Len(source) - 1) ELSE source
            tear == IF completed THEN Some(source) ELSE Null
            jagged == jaggedTearPoints(path, tear, progress)
        IN  /\ call = NoCall
            /\ completed => Len(source) >= 2
            /\ call' = [ fn |-> "jaggedTearPoints", tearPath |-> path,
                         completedTear |-> tear, tearProgress |-> progress,
                         result |-> jagged,
                         tearFibers |-> tearFibers(jagged, progress),
                         topClip |-> topClip(jagged),
                         bottomClip |-> bottomClip(jagged) ]
            /\ UNCHANGED << tearVars, pageVars, histVars, rngVars, formVars >>

\* generateJaggedEdge(p1, p2, jaggedness, segments, seed) with no jaggedness,
\* the least and the greatest the component passes, and its first two seeds
CallGenerateJaggedEdge ==
    \E p1 \in ChainPoints, p2 \in ChainPoints, segments \in 1..MaxSegments,
       jaggedness \in {0, Jaggedness(0), Jaggedness(RequiredDistSq)},
       seed \in {7, 137 + 7} :
        /\ call = NoCall
        /\ call' = [ fn |-> "generateJaggedEdge", p1 |-> p1, p2 |-> p2,
                     jaggedness |-> jaggedness, segments |-> segments,
                     seed |-> seed,
                     result |-> generateJaggedEdge(p1, p2, jaggedness, segments, seed) ]
        /\ UNCHANGED << tearVars, pageVars, histVars, rngVars, formVars >>

NextPure ==
    \/ CallExtendToEdge
    \/ CallGenerateFibers
    \/ CallJaggedTearPoints
    \/ CallGenerateJaggedEdge

SpecPure == InitPure /\ [][NextPure]_vars

---------------------------------------------------------------------------
(* The follow-up form of FlowerSection.  form.handleSubmit(onSubmit) calls
   onSubmit with the values only when formSchema accepts them; onSubmit runs
   to its first await (fetch), resumes when fetch settles, awaits
   response.json() and resumes when that settles. *)

\* formSchema: every field but address2 is z.string().min(1)
Valid(data) == \A f \in FieldNames \ {"address2"} : data[f] # ""

\* The address part of the JSON body; data.address2 || "-" (a dash)
RequestBody(data) ==
    [f \in FieldNames |-> IF f = "address2" /\ data[f] = "" THEN "-" ELSE data[f]]

\* The state onSubmit reads and writes
FormSt ==
    [ submitted |-> submitted, isSubmitting |-> isSubmitting,
      submitPc |-> submitPc, requests |-> requests, toasts |-> toasts ]

\* onSubmit up to `await fetch(...)`: setIsSubmitting(true), then the request
onSubmit(fs, data) ==
    [fs EXCEPT !.isSubmitting = TRUE,
               !.requests = Append(@, RequestBody(data)),
               !.submitPc = "fetch"]

\* finally { setIsSubmitting(false) }
onSubmitFinally(fs) == [fs EXCEPT !.isSubmitting = FALSE, !.submitPc = "idle"]

\* catch { toast.error("Couldn't send", ...) } and the finally block
onSubmitCatch(fs) == onSubmitFinally([fs EXCEPT !.toasts = Append(@, "Couldn't send")])

\* fetch resolved with a response of any status: on to `await response.json()`
onSubmitResponse(fs) == [fs EXCEPT !.submitPc = "json"]

\* Variant: setSubmitted(true) for every parsed result.
onSubmitResultAnyResponse(fs, result) ==
    IF result = Null THEN onSubmitCatch(fs)
    ELSE onSubmitFinally([fs EXCEPT !.submitted = TRUE])

\* response.json() resolved with result: null (reading result.success throws a
\* TypeError, caught), or an object whose success is truthy or not
onSubmitResult(fs, result) ==
    IF result = Null THEN onSubmitCatch(fs)
    ELSE IF Val(result).success
         THEN onSubmitFinally([fs EXCEPT !.submitted = TRUE])
         ELSE onSubmitFinally([fs EXCEPT !.toasts = Append(@, "Something went wrong")])

CommitForm(n) ==
    /\ submitted' = n.submitted
    /\ isSubmitting' = n.isSubmitting
    /\ submitPc' = n.submitPc
    /\ requests' = n.requests
    /\ toasts' = n.toasts

InitForm == Init /\ isMobileRef = FALSE

\* Typing into a field; the form is rendered only while !submitted
EditField ==
    \E f \in FieldNames, v \in TextValues :
        /\ ~submitted
        /\ formValues[f] # v
        /\ formValues' = [formValues EXCEPT ![f] = v]
        /\ UNCHANGED << submitted, isSubmitting, submitPc, requests, toasts, outcome,
                        tearVars, pageVars, histVars, rngVars, call >>

\* The submit button (disabled={isSubmitting}) with values formSchema accepts
Submit ==
    /\ ~submitted /\ ~isSubmitting
    /\ Valid(formValues)
    /\ Len(requests) < MaxSubmits
    /\ CommitForm(onSubmit(FormSt, formValues))
    /\ outcome' = "pending"
    /\ UNCHANGED << formValues, tearVars, pageVars, histVars, rngVars, call >>

\* fetch rejects: a network error
FetchRejects ==
    /\ submitPc = "fetch"
    /\ CommitForm(onSubmitCatch(FormSt))
    /\ outcome' = "network error"
    /\ UNCHANGED << formValues, tearVars, pageVars, histVars, rngVars, call >>

\* fetch resolves with a response
FetchResolves ==
    /\ submitPc = "fetch"
    /\ CommitForm(onSubmitResponse(FormSt))
    /\ UNCHANGED << outcome, formValues, tearVars, pageVars, histVars, rngVars, call >>

\* response.json() rejects: the body is not JSON
JsonRejects ==
    /\ submitPc = "json"
    /\ CommitForm(onSubmitCatch(FormSt))
    /\ outcome' = "parse error"
    /\ UNCHANGED << formValues, tearVars, pageVars, histVars, rngVars, call >>

\* response.json() resolves with null, { success: true } or { success: false }
JsonResolves ==
    \E result \in {Null, Some([success |-> TRUE]), Some([success |-> FALSE])} :
        /\ submitPc = "json"
        /\ CommitForm(onSubmitResult(FormSt, result))
        /\ outcome' = IF result = Null THEN "thrown error"
                      ELSE IF Val(result).success THEN "success" ELSE "non-success"
        /\ UNCHANGED << formValues, tearVars, pageVars, histVars, rngVars, call >>

NextForm ==
    \/ EditField
    \/ Submit
    \/ FetchRejects
    \/ FetchResolves
    \/ JsonRejects
    \/ JsonResolves

SpecForm == InitForm /\ [][NextForm]_vars

---------------------------------------------------------------------------
(* Properties *)

Idle == ~isDragging /\ ~isRevealed
Dragging == isDragging /\ ~isRevealed

\* The cover of the model has a diagonal of 400 px, so the required distance
\* is 340 px and a progress of 0.6, 0.75, 0.85 is a distance of 204, 255, 289 px.
Px(d) == d * d

\* A normalized point within 4% (3%) of an edge of the unit square
Within4(p) == p.x <= 384 \/ p.x >= 9216 \/ p.y <= 384 \/ p.y >= 9216
Within3(p) == p.x <= 288 \/ p.x >= 9312 \/ p.y <= 288 \/ p.y >= 9312

\* The release thresholds, on the state before the pointer-up
ReleaseCommits ==
    \/ tearProgress >= Px(289)
    \/ tearProgress >= Px(204) /\ lastPointRef # Null /\ Within4(Val(lastPointRef))

\* C1: onRevealed has been invoked exactly once in every state in which
\* isRevealed is true and never in a state in which it is false: it is invoked
\* in the step that sets isRevealed, never in Idle or Dragging, and never again.
C1_OnRevealedOnce == onRevealedCalls = (IF isRevealed THEN 1 ELSE 0)

C1_Witness ==
    /\ isRevealed /\ onRevealedCalls = 1 /\ completedTear # Null
    /\ ev.kind = "move" /\ Len(tearPath) >= 2 /\ tearProgress < RequiredDistSq

\* C2: once isRevealed is true no step changes isRevealed, isDragging,
\* tearProgress, tearPath, completedTear or the two refs, and a completedTear
\* that exists is never replaced.
C2_RevealedTerminal ==
    [][ /\ isRevealed =>
            /\ isRevealed'
            /\ UNCHANGED << isDragging, tearProgress, tearPath, completedTear,
                            dragStartRef, lastPointRef >>
        /\ completedTear # Null => completedTear' = completedTear ]_vars

C2_Witness ==
    /\ isRevealed /\ completedTear # Null /\ Len(tearPath) = 21
    /\ ev.kind \in { "down", "move", "up" }

\* C3: in every state in which isRevealed is true, completedTear is not null.
C3_RevealedHasTear == isRevealed => completedTear # Null

\* C4: a pointer-up delivered while Dragging sets isRevealed if and only if
\* progress >= 0.85, or progress >= 0.6 and the last recorded point is within
\* 4% of an edge.
C4_ReleaseThresholds ==
    [][ (ev'.kind = "up" /\ Dragging) => (isRevealed' <=> ReleaseCommits) ]_vars

\* a release at exactly 0.85 (289 px) with the last point away from every edge
C4_Witness ==
    /\ isRevealed /\ ev.kind = "up" /\ tearProgress = Px(289)
    /\ Len(tearPath) >= 2 /\ ~Within4(tearPath[Len(tearPath)])

\* C5: a pointer-up delivered while Dragging below the release thresholds
\* leaves Idle with tearPath empty, tearProgress 0, both refs null,
\* completedTear null and onRevealed not invoked; and a pointer-down delivered
\* in a state that is not Revealed starts a drag of one point.
C5_SnapBack ==
    [][ /\ (ev'.kind = "up" /\ Dragging /\ ~ReleaseCommits) =>
            /\ ~isRevealed' /\ ~isDragging'
            /\ tearPath' = << >> /\ tearProgress' = 0
            /\ dragStartRef' = Null /\ lastPointRef' = Null
            /\ completedTear' = Null
            /\ onRevealedCalls' = onRevealedCalls
        /\ (ev'.kind = "down" /\ ~isRevealed) =>
            /\ isDragging' /\ ~isRevealed' /\ Len(tearPath') = 1 ]_vars

\* the state a released drag with recorded pointer-moves snapped back to
C5_Witness ==
    /\ Idle /\ ev.kind = "up" /\ dragged /\ tearProgress = 0
    /\ tearPath = << >> /\ onRevealedCalls = 0 /\ completedTear = Null

\* C6: a pointer-move delivered while Dragging sets isRevealed if and only if
\* the distance from the drag start is at least the required 340 px (progress
\* 1), or at least 255 px (progress 0.75) with the clamped position within 3% of
\* an edge.
C6_DragThresholds ==
    [][ (ev'.kind = "move" /\ Dragging) =>
            LET start == Val(dragStartRef)
                d2 == (ev'.x - start.x) * (ev'.x - start.x)
                      + (ev'.y - start.y) * (ev'.y - start.y)
                pos == getNormalizedPos(ev'.x, ev'.y)
            IN  isRevealed' <=> (d2 >= Px(340) \/ (d2 >= Px(255) /\ Within3(pos))) ]_vars

\* a move at progress >= 0.75 to a point within 4% but not 3% of an edge: the
\* drag goes on, where the release-time pair would have completed it
C6_Witness ==
    /\ Dragging /\ ev.kind = "move" /\ tearProgress >= Px(255)
    /\ Within4(Val(lastPointRef)) /\ ~Within3(Val(lastPointRef))
    /\ getNormalizedPos(ev.x, ev.y) = Val(lastPointRef)

\* C7: a click sets isRevealed only on a touch-capable surface, only in Idle,
\* and not when it ends a gesture in which the pointer was dragged (the event
\* before it is the pointer-up of a drag whose pointer-moves recorded path points).
C7_TapOnlyWithoutDrag ==
    [][ (ev'.kind = "click" /\ ~isRevealed /\ isRevealed') =>
            /\ isMobileRef
            /\ Idle
            /\ ~(ev.kind = "up" /\ dragged) ]_vars

\* The 21 points of the tap fallback, written out: the recurrence from seed 42,
\* x = 0.1 + 0.04 i + jitter, y = 0.3 + 0.02 i + jitter (units of 1/9600).
C8_FakeTear ==
    << Pt(816, 2887), Pt(1411, 3003), Pt(1692, 3176), Pt(2249, 3459),
       Pt(2504, 3578), Pt(2766, 3930), Pt(3379, 4018), Pt(3574, 4151),
       Pt(3942, 4365), Pt(4301, 4696), Pt(4809, 4899), Pt(5252, 4870),
       Pt(5579, 5077), Pt(6056, 5365), Pt(6327, 5553), Pt(6643, 5619),
       Pt(6966, 6094), Pt(7607, 6226), Pt(7892, 6413), Pt(8291, 6483),
       Pt(8604, 6652) >>

\* C8: every click that reveals leaves the same state, whatever came before:
\* tearPath is the 21 points of seed 42, completedTear is (0, 0.28), those 21
\* points, (1, 0.72), tearProgress is 1 and isRevealed is true.
C8_TapReproducible ==
    [][ (ev'.kind = "click" /\ ~isRevealed /\ isRevealed') =>
            /\ tearPath' = C8_FakeTear
            /\ completedTear' =
                   Some(<< Pt(0, 2688) >> \o C8_FakeTear \o << Pt(9600, 6912) >>)
            /\ Len(Val(completedTear')) = 23
            /\ tearProgress' = RequiredDistSq ]_vars

\* a tap that follows a cancelled drag
C8_Witness ==
    /\ isRevealed /\ ev.kind = "click" /\ dragged /\ Len(tearPath) = 21
    /\ tearProgress = RequiredDistSq

\* Every generator that was called holds a cell in 1..2147483646 and returned
\* only values in [0, 1).
RngInRange ==
    \A g \in 1..Len(rngGens) :
        /\ Len(rngOuts[g]) >= 1 =>
               (rngCells[rngGens[g]] >= 1 /\ rngCells[rngGens[g]] <= Modulus - 1)
        /\ \A k \in 1..Len(rngOuts[g]) :
               rngOuts[g][k] >= 0 /\ rngOuts[g][k] < Modulus - 1

\* C9 as stated: for any integer seed the cell after every call is in
\* 1..2147483646 and every value is in [0, 1).
C9_AnySeedInRange == RngInRange

\* C9 as amended: the same, for a seed in 1..2147483646.
C9_SeedInRange == (rngSeed >= 1 /\ rngSeed <= Modulus - 1) => RngInRange

\* the seed whose first value is the largest one, 2147483645 / 2147483646
C9_Witness ==
    /\ rngSeed = 739806647
    /\ \E g \in 1..Len(rngGens) :
           Len(rngOuts[g]) >= 2 /\ rngOuts[g][1] = Modulus - 2

\* C10: generators made from one seed return the same values call for call,
\* however their calls interleave.
C10_Deterministic ==
    \A g, h \in 1..Len(rngGens) :
        \A k \in 1..Len(rngOuts[g]) :
            k <= Len(rngOuts[h]) => rngOuts[g][k] = rngOuts[h][k]

C10_Witness ==
    /\ Len(rngGens) = 2
    /\ Len(rngOuts[1]) >= 2 /\ Len(rngOuts[2]) >= 2
    /\ rngSeed = 42 /\ rngOuts[2][1] = 705893

\* C11: whatever the end point, its neighbour and the isStart flag (the two
\* coinciding, or the end point already on the boundary, included),
\* extendToEdge returns a point with both coordinates in [0, 1] that lies on
\* the boundary of the unit square.
C11_OnBoundary ==
    call.fn = "extendToEdge" =>
        /\ call.result.x >= 0 /\ call.result.x <= One
        /\ call.result.y >= 0 /\ call.result.y <= One
        /\ call.result.x \in {0, One} \/ call.result.y \in {0, One}

\* An end point on the bottom edge whose neighbour coincides with it: no ray,
\* the fallback on the top edge is returned.
C11_Witness ==
    /\ call.fn = "extendToEdge"
    /\ call.point = call.neighbor
    /\ call.point.y = One
    /\ call.result = Pt(call.point.x, 0)

\* C12: for an end point strictly inside the unit square and a direction
\* (end point minus neighbour) along an axis, the result is where the ray
\* leaves the square: (x, 0) for (0, negative), (x, 1) for (0, positive),
\* (0, y) for (negative, 0), (1, y) for (positive, 0).
C12_AxisAligned ==
    call.fn = "extendToEdge" =>
        LET p == call.point
            dx == call.point.x - call.neighbor.x
            dy == call.point.y - call.neighbor.y
        IN  (p.x > 0 /\ p.x < One /\ p.y > 0 /\ p.y < One) =>
                /\ (dx = 0 /\ dy < 0) => call.result = Pt(p.x, 0)
                /\ (dx = 0 /\ dy > 0) => call.result = Pt(p.x, One)
                /\ (dx < 0 /\ dy = 0) => call.result = Pt(0, p.y)
                /\ (dx > 0 /\ dy = 0) => call.result = Pt(One, p.y)

\* End point (0.5, 0.5) with neighbour (0.5, 0.6): the ray goes up to (0.5, 0).
C12_Witness ==
    /\ call.fn = "extendToEdge"
    /\ call.point = Pt(One \div 2, One \div 2)
    /\ call.neighbor = Pt(One \div 2, (3 * One) \div 5)
    /\ call.result = Pt(One \div 2, 0)

\* C13: every pointer-move handled while dragging sets progress to
\* min(distance from the drag start to the raw pointer position /
\* (0.85 * diagonal), 1), a value in [0, 1]; and when a move follows a move of
\* the same drag and lies strictly farther from the drag start on one straight
\* line through it, progress does not decrease.
C13_Progress ==
    [][ (ev'.kind = "move" /\ Dragging) =>
            LET start == Val(dragStartRef)
                d2 == (ev'.x - start.x) * (ev'.x - start.x)
                      + (ev'.y - start.y) * (ev'.y - start.y)
                dPrev2 == (ev.x - start.x) * (ev.x - start.x)
                          + (ev.y - start.y) * (ev.y - start.y)
                straight == (ev.x - start.x) * (ev'.y - start.y)
                            = (ev.y - start.y) * (ev'.x - start.x)
                required2 == (Px(CoverRect.width) + Px(CoverRect.height)) * 289
            IN  /\ tearProgress' * 400 = IF d2 * 400 >= required2 THEN required2
                                          ELSE d2 * 400
                /\ tearProgress' >= 0
                /\ tearProgress' * 400 <= required2
                /\ (ev.kind = "move" /\ straight /\ d2 > dPrev2) =>
                        tearProgress' >= tearProgress ]_vars

\* A drag straight down the middle of the cover, two recorded moves each
\* farther from the start than the one before, progress strictly between 0 and 1.
C13_Witness ==
    /\ Dragging /\ ev.kind = "move" /\ Len(tearPath) = 3
    /\ tearPath[1].x = tearPath[2].x /\ tearPath[2].x = tearPath[3].x
    /\ tearPath[1].y < tearPath[2].y /\ tearPath[2].y < tearPath[3].y
    /\ getNormalizedPos(ev.x, ev.y) = tearPath[3]
    /\ tearProgress = Px(ev.x - Val(dragStartRef).x) + Px(ev.y - Val(dragStartRef).y)
    /\ tearProgress > 0 /\ tearProgress < RequiredDistSq

\* C14: chaining the jagged edges of a source path of n >= 2 points, 4 segments
\* each, gives exactly 4 * (n - 1) + 1 vertices; source point i (counted from
\* 0) is the vertex at index 4 * i and is emitted once: the vertex shared by
\* two segments is not repeated.
C14_ChainLength ==
    call.fn = "jaggedTearPoints" =>
        LET source == TearSource(call.tearPath, call.completedTear)
            n == Len(source)
            jagged == call.result
        IN  n >= 2 =>
                /\ Len(jagged) = 4 * (n - 1) + 1
                /\ \A i \in 0..(n - 1) : jagged[4 * i + 1] = source[i + 1]

\* A completed tear of four points: three chained segments, 13 vertices.
C14_Witness ==
    /\ call.fn = "jaggedTearPoints" /\ call.completedTear # Null
    /\ Len(Val(call.completedTear)) = 4
    /\ Len(call.result) = 13
    /\ call.result[5] = Val(call.completedTear)[2]
    /\ call.result[9] = Val(call.completedTear)[3]

\* Points of the unit square at which the two clip polygons are compared, in
\* half steps of 0.1%: odd coordinates, so that none is a vertex of a polygon
\* or level with one.
SamplePoints ==
    { Pt(2 * sx + 1, 2 * sy + 1) :
          sx \in {125, 375, 625, 875}, sy \in {10 * k + 5 : k \in 0..99} }

\* The winding number of a closed polygon around a sample point: the upward
\* edges that pass the point on its right minus the downward ones.
Winding(poly, s) ==
    LET n == Len(poly)
        a(i) == Pt(2 * poly[i].x, 2 * poly[i].y)
        b(i) == Pt(2 * poly[(i % n) + 1].x, 2 * poly[(i % n) + 1].y)
        side(i) == (b(i).x - a(i).x) * (s.y - a(i).y)
                   - (s.x - a(i).x) * (b(i).y - a(i).y)
        up == { i \in 1..n : a(i).y < s.y /\ s.y < b(i).y /\ side(i) > 0 }
        down == { i \in 1..n : b(i).y < s.y /\ s.y < a(i).y /\ side(i) < 0 }
    IN  Cardinality(up) - Cardinality(down)

OnEdge(poly, s) ==
    LET n == Len(poly)
        a(i) == Pt(2 * poly[i].x, 2 * poly[i].y)
        b(i) == Pt(2 * poly[(i % n) + 1].x, 2 * poly[(i % n) + 1].y)
    IN  \E i \in 1..n :
            /\ (a(i).y < s.y /\ s.y < b(i).y) \/ (b(i).y < s.y /\ s.y < a(i).y)
            /\ (b(i).x - a(i).x) * (s.y - a(i).y)
               = (s.x - a(i).x) * (b(i).y - a(i).y)

\* clip-path: polygon(...) fills by the nonzero rule
Clipped(poly, s) == Winding(poly, s) # 0

\* C15: whenever the torn halves are drawn (a completed tear, a jagged path of
\* at least 2 points), the top and the bottom clip polygon cover the unit
\* square without overlapping: every point off their edges lies in exactly
\* one of them.
C15_ClipsTile ==
    completedTear # Null =>
        \A jagged \in {jaggedTearPoints(tearPath, completedTear, tearProgress)} :
            Len(jagged) >= 2 =>
                \A top \in {topClip(jagged)}, bottom \in {bottomClip(jagged)} :
                    \A s \in SamplePoints :
                        (~OnEdge(top, s) /\ ~OnEdge(bottom, s)) =>
                            (Clipped(top, s) # Clipped(bottom, s))

FibersTotal ==
    /\ ~call.result.threw
    /\ Len(call.tearPoints) < 2 => call.result.fibers = << >>
    /\ Len(call.tearPoints) >= 2 =>
           \A i \in 1..Len(call.result.fibers) :
               /\ call.result.fibers[i].idx >= 0
               /\ call.result.fibers[i].idx <= Len(call.tearPoints) - 2

\* C16 as stated: for any integer seed and any count generateFibers returns:
\* the empty list for a path of fewer than 2 points, and for n >= 2 points
\* fibers whose segment index idx satisfies 0 <= idx <= n - 2.
C16_AnySeedTotal == call.fn = "generateFibers" => FibersTotal

\* C16, amended: the same for any seed in 1..2147483646.
C16_SeedTotal ==
    (call.fn = "generateFibers" /\ call.seed >= 1 /\ call.seed <= Modulus - 1) =>
        FibersTotal

\* The seed the program passes, a path of five points, three fibers made.
C16_Witness ==
    /\ call.fn = "generateFibers" /\ call.seed = 999
    /\ Len(call.tearPoints) = 5 /\ call.count = 3
    /\ ~call.result.threw /\ Len(call.result.fibers) = 3

\* C17: scrollUnlocked is false in every state in which onRevealed has not
\* been invoked yet, and it becomes true only by the firing of a timer that
\* onRevealed scheduled: a pending timer is consumed by the very step, and no
\* other state of the page or of the letter changes with it.
C17_LockedUntilRevealed ==
    /\ [](onRevealedCalls = 0 => ~scrollUnlocked)
    /\ [][ (~scrollUnlocked /\ scrollUnlocked') =>
               /\ onRevealedCalls >= 1
               /\ timers >= 1 /\ timers' = timers - 1
               /\ UNCHANGED << tearVars, histVars >> ]_vars

\* The tear was revealed, its timer fired, and content is unlocked.
C17_Witness ==
    /\ scrollUnlocked /\ onRevealedCalls = 1 /\ timers = 0 /\ isRevealed

\* C18: once Revealed is entered the unlock timer eventually fires, so
\* scrollUnlocked eventually becomes true; from then on it stays true; and no
\* step takes a pending timer away other than its firing.
C18_EventuallyUnlocked ==
    /\ isRevealed ~> scrollUnlocked
    /\ [][scrollUnlocked => scrollUnlocked']_vars
    /\ [][timers' < timers => (timers' = timers - 1 /\ scrollUnlocked')]_vars

\* Pointer input delivered to the cover after the content was unlocked, which
\* stays unlocked.
C18_Witness ==
    /\ isRevealed /\ scrollUnlocked /\ timers = 0
    /\ ev.kind \in {"down", "up", "click"}

\* C19: in every reachable state any two consecutive points of tearPath are
\* more than 0.012 apart, during a drag and in the path frozen at completion,
\* and a pointer-move appends at most one point.
C19_MinimumSpacing ==
    /\ [](\A i \in 1..(Len(tearPath) - 1) : MovedEnough(tearPath[i + 1], tearPath[i]))
    /\ [][ev'.kind = "move" => Len(tearPath') <= Len(tearPath) + 1]_vars

\* The last point of a path that differs from its final point: where the
\* final movement came from.
CameFrom(path) ==
    LET n == Len(path)
        before == { j \in 1..(n - 1) : path[j] # path[n] }
    IN  path[CHOOSE j \in before : \A k \in before : k <= j]

\* C20: when a drag completes (a pointer-move or a pointer-up enters Revealed
\* with a completed tear), the last point of completedTear is the boundary
\* point reached from the final path point in the direction of the final
\* movement, and the first point the one reached from the first path point
\* away from the second; so the fallback (x, 0) appears only when that ray has
\* no valid exit, and a final movement straight down from inside the surface
\* ends on the bottom edge.
C20_EndsFollowDirection ==
    [][ (~isRevealed /\ isRevealed' /\ ev'.kind \in {"move", "up"}
         /\ completedTear' # Null) =>
            LET path == tearPath'
                n == Len(path)
                tear == Val(completedTear')
                from == CameFrom(path)
            IN  /\ tear[1] = extendToEdge(path[1], path[2], TRUE)
                /\ (\E j \in 1..(n - 1) : path[j] # path[n]) =>
                       /\ tear[Len(tear)] = extendToEdge(path[n], from, FALSE)
                       /\ (from.x = path[n].x /\ from.y < path[n].y
                           /\ path[n].x > 0 /\ path[n].x < One /\ path[n].y < One) =>
                              tear[Len(tear)].y = One ]_vars

OnBoundary(q) == q.x \in {0, One} \/ q.y \in {0, One}

\* C21: when a drag commit (a pointer-move or a pointer-up entering Revealed)
\* creates a completed tear, completedTear is extendToEdge(first, second),
\* then the frozen tearPath point for point, then extendToEdge(last,
\* second-to-last): two points longer than tearPath, both ends on the boundary
\* of the unit square.
C21_CompletedTearShape ==
    [][ (~isRevealed /\ isRevealed' /\ ev'.kind \in {"move", "up"}
         /\ completedTear' # Null) =>
            LET path == tearPath'
                n == Len(path)
                tear == Val(completedTear')
            IN  /\ n >= 2
                /\ Len(tear) = n + 2
                /\ \A i \in 1..n : tear[i + 1] = path[i]
                /\ tear[1] = extendToEdge(path[1], path[2], TRUE)
                /\ tear[n + 2] = extendToEdge(path[n], path[n - 1], FALSE)
                /\ OnBoundary(tear[1]) /\ OnBoundary(tear[n + 2]) ]_vars

\* A drag committed by the pointer-move that reached the edge: the final
\* position is part of the frozen path and of the completed tear.
C21_Witness ==
    /\ isRevealed /\ ev.kind = "move" /\ completedTear # Null
    /\ Len(tearPath) >= 3
    /\ Len(Val(completedTear)) = Len(tearPath) + 2
    /\ Val(completedTear)[Len(tearPath) + 1] = getNormalizedPos(ev.x, ev.y)

\* C22: right after every pointer-down the cover accepts (any phase other than
\* Revealed) the drag session is fresh: tearPath is the single down point, the
\* drag start and the last point are those of the event, and progress is 0.
C22_FreshSession ==
    [][ (ev'.kind = "down" /\ ~isRevealed) =>
            /\ isDragging'
            /\ tearPath' = << getNormalizedPos(ev'.x, ev'.y) >>
            /\ dragStartRef' = Some(Pt(ev'.x, ev'.y))
            /\ lastPointRef' = Some(getNormalizedPos(ev'.x, ev'.y))
            /\ tearProgress' = 0 ]_vars

Sgn(v) == IF v < 0 THEN 0 - 1 ELSE 1
Abs(v) == IF v < 0 THEN 0 - v ELSE v

\* The crossings of the line q + t * (dx, dy) with the four boundary lines, as
\* fractions over d > 0: t = tn / d, x = xn / d, y = yn / d.  The lines x = 0
\* and x = 1 are crossed only if dx # 0, the lines y = 0 and y = 1 only if
\* dy # 0.
Crossings(q, dx, dy) ==
    { [tn |-> (e - q.x) * Sgn(dx), xn |-> e * Abs(dx),
       yn |-> (q.y * dx + dy * (e - q.x)) * Sgn(dx), d |-> Abs(dx)] :
          e \in IF dx # 0 THEN {0, One} ELSE {} }
    \cup
    { [tn |-> (e - q.y) * Sgn(dy), xn |-> (q.x * dy + dx * (e - q.y)) * Sgn(dy),
       yn |-> e * Abs(dy), d |-> Abs(dy)] :
          e \in IF dy # 0 THEN {0, One} ELSE {} }

\* C23: extendToEdge looks at the boundary crossings with t > 0 along
\* (end point - neighbour), none on an axis whose delta is 0, keeps those with
\* both coordinates within [-0.01, 1.01], and returns the kept crossing
\* nearest the end point (on one ray: the smallest t), clamped to [0, 1]; when
\* no crossing is kept it returns (clamp(end point.x), 0).
C23_NearestValidCrossing ==
    call.fn = "extendToEdge" =>
        LET q == call.point
            tol == One \div 100
            kept == { c \in Crossings(q, q.x - call.neighbor.x, q.y - call.neighbor.y) :
                        /\ c.tn > 0
                        /\ c.xn >= (0 - tol) * c.d /\ c.xn <= (One + tol) * c.d
                        /\ c.yn >= (0 - tol) * c.d /\ c.yn <= (One + tol) * c.d }
        IN  /\ kept = {} => call.result = Pt(Clamp01(q.x), 0)
            /\ kept # {} =>
                   \E c \in kept :
                       /\ \A o \in kept : c.tn * o.d <= o.tn * c.d
                       /\ call.result = Pt(Clamp01(RoundDiv(c.xn, c.d)),
                                            Clamp01(RoundDiv(c.yn, c.d)))

\* A ray that leaves through the left edge next to the corner and then crosses
\* the line y = 0 just outside the square: two crossings are kept, the nearer
\* one is returned.
C23_Witness ==
    /\ call.fn = "extendToEdge"
    /\ call.point = Pt(One \div 960, One \div 960)
    /\ call.neighbor = Pt(One \div 2, One \div 4)
    /\ call.result = Pt(0, 5)

\* C24: generateJaggedEdge with segments >= 1 returns segments + 1 points, the
\* first p1 and the last p2, unchanged; with jaggedness 0 interior point i lies
\* on the line from p1 to p2 at parameter i / segments; and for p1 = p2 (normal
\* (0, 0), the divisor len || 1 is 1) there are still segments + 1 points, each
\* within the micro-jitter 0.15 * jaggedness of p1 on either axis.
C24_JaggedEdgeShape ==
    call.fn = "generateJaggedEdge" =>
        LET r == call.result
            n == call.segments
            reach == (3 * call.jaggedness) \div 20 + Fine
        IN  /\ Len(r) = n + 1
            /\ r[1] = call.p1 /\ r[n + 1] = call.p2
            /\ call.jaggedness = 0 =>
                   \A i \in 1..(n - 1) :
                       /\ n * (r[i + 1].x - call.p1.x) = i * (call.p2.x - call.p1.x)
                       /\ n * (r[i + 1].y - call.p1.y) = i * (call.p2.y - call.p1.y)
            /\ call.p1 = call.p2 =>
                   \A i \in 1..(n - 1) :
                       /\ Abs(r[i + 1].x - call.p1.x) * Fine <= reach
                       /\ Abs(r[i + 1].y - call.p1.y) * Fine <= reach

\* p1 = p2 with the greatest jaggedness and 4 segments: 5 points, the interior
\* ones moved off p1 by the micro-jitter alone.
C24_Witness ==
    /\ call.fn = "generateJaggedEdge" /\ call.p1 = call.p2
    /\ call.segments = 4 /\ call.jaggedness = Jaggedness(RequiredDistSq)
    /\ Len(call.result) = 5
    /\ call.result[2] # call.p1

\* C25: for a jagged path of m >= 2 points the top polygon holds the m jagged
\* vertices in reverse order and the bottom polygon the same m vertices in
\* forward order, both hold the connectors (100%, last.y) and (0%, first.y),
\* and for fewer than 2 jagged points both clips are empty.
C25_ClipsShareVertices ==
    call.fn = "jaggedTearPoints" =>
        LET jagged == call.result
            m == Len(jagged)
            top == call.topClip
            bottom == call.bottomClip
            right == Pt(1000, Percent(jagged[m].y))
            left == Pt(0, Percent(jagged[1].y))
        IN  /\ m < 2 => top = << >> /\ bottom = << >>
            /\ m >= 2 =>
                   /\ Len(top) = m + 4 /\ Len(bottom) = m + 4
                   /\ \A i \in 1..m :
                          /\ bottom[1 + i] = ClipVertex(jagged[i])
                          /\ top[3 + i] = bottom[1 + (m + 1 - i)]
                   /\ top[3] = right /\ bottom[m + 2] = right
                   /\ top[m + 4] = left /\ bottom[1] = left

\* A tear path of three points at full progress: 9 jagged vertices, the
\* connectors at the heights of the first and the last, not at the corners.
C25_Witness ==
    /\ call.fn = "jaggedTearPoints" /\ call.completedTear = Null
    /\ Len(call.result) = 9 /\ Len(call.topClip) = 13
    /\ call.topClip[3] = Pt(1000, 500) /\ call.bottomClip[1] = Pt(0, 400)
    /\ call.tearProgress = RequiredDistSq

\* C28: the jagged path comes from completedTear when there is one, otherwise
\* from tearPath when it has at least 2 points, otherwise it is empty (its
\* every fourth vertex is a point of that source); fibers and both clips are
\* empty when the jagged path has fewer than 2 points, and otherwise the number
\* of fibers is floor(tearProgress * 40).
C28_DerivedFromState ==
    call.fn = "jaggedTearPoints" =>
        LET source == IF call.completedTear # Null THEN Val(call.completedTear)
                      ELSE IF Len(call.tearPath) >= 2 THEN call.tearPath
                      ELSE << >>
            n == Len(source)
            jagged == call.result
            fibers == call.tearFibers
        IN  /\ n < 2 => jagged = << >>
            /\ n >= 2 => /\ Len(jagged) = 4 * (n - 1) + 1
                         /\ \A i \in 1..n : jagged[4 * (i - 1) + 1] = source[i]
            /\ Len(jagged) < 2 =>
                   /\ fibers.fibers = << >> /\ ~fibers.threw
                   /\ call.topClip = << >> /\ call.bottomClip = << >>
            /\ Len(jagged) >= 2 =>
                   /\ ~fibers.threw
                   /\ call.topClip # << >> /\ call.bottomClip # << >>
                   /\ \E k \in 0..40 :
                          /\ Len(fibers.fibers) = k
                          /\ k * k * RequiredDistSq <= 1600 * call.tearProgress
                          /\ \/ k = 40
                             \/ (k + 1) * (k + 1) * RequiredDistSq > 1600 * call.tearProgress

\* A completed tear of four points whose tearPath still holds the two points
\* between the extensions, at progress 0.5: 13 jagged vertices, 20 fibers.
C28_Witness ==
    /\ call.fn = "jaggedTearPoints" /\ call.completedTear # Null
    /\ Len(call.tearPath) = 2 /\ Len(call.result) = 13
    /\ 4 * call.tearProgress = RequiredDistSq
    /\ Len(call.tearFibers.fibers) = 20

\* C26: the phase changes only from Idle to Dragging (by a pointer-down), from
\* Dragging to Revealed (by a pointer-move or a pointer-up that meets the
\* release thresholds), from Dragging to Idle (by a pointer-up below the
\* thresholds) and from Idle to Revealed (by a click); Revealed is never left,
\* so the only backward step is Dragging to Idle; and a pointer-move or a
\* pointer-up received in Idle changes no tear state.
C26_PhaseTransitions ==
    [][ /\ isRevealed => isRevealed' /\ ~isDragging'
        /\ ~(isRevealed' /\ isDragging')
        /\ (Idle /\ isDragging') => ev'.kind = "down"
        /\ (Idle /\ isRevealed') => ev'.kind = "click"
        /\ (Dragging /\ isRevealed') =>
               \/ ev'.kind = "move"
               \/ ev'.kind = "up" /\ ReleaseCommits
        /\ (Dragging /\ ~isDragging' /\ ~isRevealed') =>
               ev'.kind = "up" /\ ~ReleaseCommits
        /\ (Idle /\ ev'.kind \in {"move", "up"}) => UNCHANGED tearVars
      ]_vars

\* Idle again after a drag that recorded a point and was released below the
\* thresholds: the backward step has been taken.
C26_Witness == Idle /\ dragged /\ ev.kind = "up" /\ onRevealedCalls = 0

\* C27: every point of tearPath and every point of completedTear has x and y
\* in [0, 1], whatever positions the captured pointer reported.
C27_PointsInUnitSquare ==
    LET inside(q) == q.x >= 0 /\ q.x <= One /\ q.y >= 0 /\ q.y <= One
    IN  /\ \A i \in 1..Len(tearPath) : inside(tearPath[i])
        /\ completedTear # Null =>
               \A i \in 1..Len(Val(completedTear)) : inside(Val(completedTear)[i])

\* A drag completed by a move reported 205 px left of the cover: the point
\* stored for it lies on the left edge.
C27_Witness ==
    /\ ev = Event("move", << 0 - 205, 160 >>)
    /\ completedTear # Null
    /\ tearPath[Len(tearPath)] = Pt(0, One \div 2)

\* C30: in Idle tearPath is empty, tearProgress is 0, completedTear is null,
\* both refs are null, and the jagged path, the fibers and both clips are empty.
C30_IdleIsClean ==
    Idle =>
        /\ tearPath = << >> /\ tearProgress = 0 /\ completedTear = Null
        /\ dragStartRef = Null /\ lastPointRef = Null
        /\ \A jagged \in {jaggedTearPoints(tearPath, completedTear, tearProgress)} :
               /\ jagged = << >>
               /\ tearFibers(jagged, tearProgress).fibers = << >>
               /\ topClip(jagged) = << >> /\ bottomClip(jagged) = << >>

\* Idle reached by the snap-back of a drag that had recorded a point.
C30_Witness == Idle /\ dragged /\ ev.kind = "up" /\ tearPath = << >> /\ tearProgress = 0

\* The fibers of a call: none for count <= 0, and for a path of at least 2
\* points and count >= 0 exactly count fibers, each of length 2 to 8 (in
\* thousandths) and opacity 0.15 to 0.40 (in ten-thousandths).  The two ends of
\* a fiber are fiberLen apart: (x2, y2) is (x1, y1) plus fiberLen along the angle.
FibersInRange ==
    /\ call.count <= 0 => (~call.result.threw /\ call.result.fibers = << >>)
    /\ (Len(call.tearPoints) >= 2 /\ call.count >= 0) =>
           /\ ~call.result.threw
           /\ Len(call.result.fibers) = call.count
           /\ \A i \in 1..Len(call.result.fibers) :
                  /\ call.result.fibers[i].fiberLen >= 2000
                  /\ call.result.fibers[i].fiberLen <= 8000
                  /\ call.result.fibers[i].opacity >= 1500
                  /\ call.result.fibers[i].opacity <= 4000

\* C29 as stated: for a path of at least 2 points and count >= 0 generateFibers
\* returns exactly count fibers, each with a length in [2, 8] and an opacity in
\* [0.15, 0.40], and for count <= 0 the empty list, whatever the seed.
C29_AnySeedFibers == call.fn = "generateFibers" => FibersInRange

\* C29, amended: the same for any seed in 1..2147483646.
C29_SeedFibers ==
    (call.fn = "generateFibers" /\ call.seed >= 1 /\ call.seed <= Modulus - 1) =>
        FibersInRange

\* Three fibers on a path of three points from the seed 12345, the second of
\* them longer than 5 units.
C29_Witness ==
    /\ call.fn = "generateFibers" /\ call.seed = 12345
    /\ Len(call.tearPoints) = 3 /\ call.count = 3
    /\ Len(call.result.fibers) = 3
    /\ \E i \in 1..3 : call.result.fibers[i].fiberLen > 5000

\* C31: in Dragging the drag-start and last-point refs are non-null, tearPath
\* is non-empty, its first element is the clamped position of the pointer-down
\* (the one dragStartRef holds, stored by the pointer-down step and kept by
\* every later step of the drag), its last element equals the last-point ref,
\* and completedTear is null.
C31_DraggingSession ==
    /\ [](Dragging =>
             /\ dragStartRef # Null /\ lastPointRef # Null
             /\ tearPath # << >>
             /\ tearPath[1] = getNormalizedPos(Val(dragStartRef).x, Val(dragStartRef).y)
             /\ tearPath[Len(tearPath)] = Val(lastPointRef)
             /\ completedTear = Null)
    /\ [][ /\ (Dragging' /\ ev' # ev /\ ev'.kind = "down") =>
                  tearPath'[1] = getNormalizedPos(ev'.x, ev'.y)
           /\ (Dragging /\ Dragging' /\ ev'.kind # "down") =>
                  tearPath'[1] = tearPath[1] ]_vars

\* A drag that has recorded a second point: two different points, the last
\* of them the last-point ref.
C31_Witness ==
    /\ Dragging /\ ev.kind = "move" /\ Len(tearPath) = 2
    /\ tearPath[1] # tearPath[2]
    /\ lastPointRef = Some(tearPath[2])

\* C32: a submission sets isSubmitting in the step that sends the request, it
\* stays true while the request is pending and is false again after every
\* outcome (success, non-success, network error, parse error, thrown error);
\* submitted becomes true only by a success response, every other outcome
\* leaves it false, and once true it never returns to false.
C32_SubmissionFlags ==
    /\ [](isSubmitting <=> submitPc # "idle")
    /\ [][ /\ (Len(requests') > Len(requests)) => (~isSubmitting /\ isSubmitting')
           /\ (submitPc # "idle" /\ submitPc' = "idle") =>
                  /\ ~isSubmitting'
                  /\ outcome' \in {"success", "non-success", "network error",
                                   "parse error", "thrown error"}
                  /\ submitted' <=> (outcome' = "success")
           /\ (~submitted /\ submitted') => (submitPc = "json" /\ outcome' = "success")
           /\ submitted => submitted' ]_vars

\* A submission that failed with a toast and a second one that succeeded.
C32_Witness ==
    /\ submitted /\ ~isSubmitting /\ outcome = "success"
    /\ Len(requests) = 2 /\ Len(toasts) = 1

====
